---- MODULE Spec2Model ----
(***************************************************************************)
(* Uta: conversion of timed-text markup (TTML) lyrics to line lyrics (LRC).*)
(* The module models src/src/main.rs: the timestamp translator             *)
(* ttml_timetag_to_lrc_timetag, the synthesizer ttml_to_lrc and the two    *)
(* writers Uta::save_album_lyrics and Uta::save_song_lyrics.                *)
(*                                                                         *)
(* A string is a sequence of characters, a character a one-element string. *)
(* "LF" stands for the line feed and "U+0663" for ARABIC-INDIC DIGIT THREE, *)
(* a decimal digit outside ASCII.                                          *)
(***************************************************************************)
EXTENDS Integers, Sequences, FiniteSets, TLC

VARIABLES
    \* the timestamp translator
    shape,          \* how the input text was put together (fields and junk)
    ttml,           \* the text handed to ttml_timetag_to_lrc_timetag
    overflowChecks, \* the build: TRUE = overflow checks on (debug profile)
    timetag,        \* the translator's result, NotCalled before the call
    \* the synthesizer
    xml,            \* the parsed Document handed to ttml_to_lrc
    lyrics,         \* the synthesizer's result, NotCalled before the call
    visited,        \* how many paragraphs the synthesizer's loop has entered
    \* the writers
    request,        \* what save_album_lyrics / save_song_lyrics were asked
    pc,             \* position of the writer
    idx,            \* index of the track the loop of save_album_lyrics is at
    files,          \* the file system: file name -> file content
    printed,        \* the lines printed so far
    outcome         \* the writer's result

tagVars == <<shape, ttml, overflowChecks, timetag>>
docVars == <<xml, lyrics, visited>>
saveVars == <<request, pc, idx, files, printed, outcome>>
vars == <<shape, ttml, overflowChecks, timetag, xml, lyrics, visited,
          request, pc, idx, files, printed, outcome>>

NotCalled == [kind |-> "NotCalled"]
Panic == [kind |-> "Panic"]
Err(msg) == [kind |-> "Err", msg |-> msg]

(***************************************************************************)
(* Characters and unsigned 32-bit integers.  A u32 is kept as two 16-bit   *)
(* limbs, value = hi * 2^16 + lo, so that values up to 2^32 - 1 and their  *)
(* overflow are computed exactly.                                          *)
(***************************************************************************)
AsciiDigits == <<"0", "1", "2", "3", "4", "5", "6", "7", "8", "9">>

IsAsciiDigit(c) == \E i \in 1..10 : AsciiDigits[i] = c

\* the regex class \d: Unicode decimal digits, not only ASCII ones
IsDigit(c) == IsAsciiDigit(c) \/ c = "U+0663"

DigitVal(c) == (CHOOSE i \in 1..10 : AsciiDigits[i] = c) - 1

Limb == 2^16

U32(n) == [hi |-> 0, lo |-> n]

RECURSIVE ParseAcc(_, _)
ParseAcc(s, acc) ==
    IF s = <<>> THEN [kind |-> "Ok", val |-> acc]
    ELSE IF ~IsAsciiDigit(Head(s)) THEN Err("invalid digit found in string")
    ELSE LET lo2 == acc.lo * 10 + DigitVal(Head(s))
             hi2 == acc.hi * 10 + (lo2 \div Limb)
         IN  IF hi2 >= Limb THEN Err("number too large to fit in target type")
             ELSE ParseAcc(Tail(s), [hi |-> hi2, lo |-> lo2 % Limb])

\* str::parse::<u32>() of a non-empty run of \d characters
parse_u32(s) == ParseAcc(s, U32(0))

\* hour * 60 + min on u32: overflow panics when the build checks it, and
\* wraps modulo 2^32 when it does not
HourMinutes(hour, min, checks) ==
    LET lo2 == hour.lo * 60 + min.lo
        hi2 == hour.hi * 60 + min.hi + (lo2 \div Limb)
    IN  IF hi2 >= Limb /\ checks THEN Panic
        ELSE [kind |-> "Ok", val |-> [hi |-> hi2 % Limb, lo |-> lo2 % Limb]]

RECURSIVE DecRev(_)
DecRev(u) ==
    IF u.hi = 0 /\ u.lo = 0 THEN <<>>
    ELSE LET t == (u.hi % 10) * Limb + u.lo
         IN  <<AsciiDigits[(t % 10) + 1]>>
                 \o DecRev([hi |-> u.hi \div 10, lo |-> t \div 10])

Reverse(s) == [i \in 1..Len(s) |-> s[Len(s) + 1 - i]]

\* format "{}" of a u32
Fmt(u) == IF u.hi = 0 /\ u.lo = 0 THEN <<"0">> ELSE Reverse(DecRev(u))

\* zero padding to a width of two
Pad2(digits) == IF Len(digits) < 2 THEN <<"0">> \o digits ELSE digits

\* format "{:02}" of a u32: at least two digits, zero-padded
Fmt02(u) == Pad2(Fmt(u))

(***************************************************************************)
(* The two patterns.  TTML_TIMETAG_MS is                                   *)
(*   ^((?P<minute>\d{1,2}):)?(?P<second>\d{1,2})\.(?P<frames>\d{3})$       *)
(* and TTML_TIMETAG_HMS is                                                 *)
(*   ^((?P<hour>\d+):)?((?P<minute>\d{1,2}):)?(?P<second>\d{1,2})\.(?P<frames>\d{3})$ *)
(* Matching is leftmost-first: an optional group is tried present before   *)
(* absent, and the first alternative that matches the whole text wins.      *)
(***************************************************************************)
NoMatch == [kind |-> "NoMatch"]

Absent == <<>>

CharAt(s, i) == IF i >= 1 /\ i <= Len(s) THEN s[i] ELSE "EOT"

RECURSIVE DigitRun(_, _)
\* the number of \d characters of s from position i on
DigitRun(s, i) == IF IsDigit(CharAt(s, i)) THEN 1 + DigitRun(s, i + 1) ELSE 0

Slice(s, i, n) == [k \in 1..n |-> s[i + k - 1]]

\* a pattern without the anchor $
AtEnd_unanchored(s, i) == TRUE

\* the anchor $: the match ends where the text ends
AtEnd(s, i) == i = Len(s) + 1

\* (?P<second>\d{1,2})\.(?P<frames>\d{3})$ from position i, where r is the
\* number of \d characters found there
SecondFramesRun(s, i, r) ==
    IF /\ r \in {1, 2}
       /\ CharAt(s, i + r) = "."
       /\ DigitRun(s, i + r + 1) >= 3
       /\ AtEnd(s, i + r + 4)
    THEN [kind |-> "Match", second |-> Slice(s, i, r),
          frames |-> Slice(s, i + r + 1, 3)]
    ELSE NoMatch

SecondFrames(s, i) == SecondFramesRun(s, i, DigitRun(s, i))

\* a group (\d{1,most}):, r digits found at position i: the position after
\* the group, 0 if the group cannot be present
GroupEnd(s, i, r, most) ==
    IF r >= 1 /\ r <= most /\ CharAt(s, i + r) = ":" THEN i + r + 1 ELSE 0

\* ((?P<minute>\d{1,2}):)? present from position i
MinuteGroup(s, i) == GroupEnd(s, i, DigitRun(s, i), 2)

\* ((?P<hour>\d+):)? present from position i
HourGroup(s, i) == GroupEnd(s, i, DigitRun(s, i), Len(s))

\* the captures of a match whose seconds and fraction are sf
Captures(hour, minute, sf) ==
    IF sf.kind = "Match"
    THEN [kind |-> "Match", hour |-> hour, minute |-> minute,
          second |-> sf.second, frames |-> sf.frames]
    ELSE NoMatch

\* leftmost-first: the first alternative if it matches, else the second
FirstOf(first, second) == IF first.kind = "Match" THEN first ELSE second

\* the minute group present and ending before position j
WithMinute(s, i, hour, j) ==
    IF j = 0 THEN NoMatch
    ELSE Captures(hour, Slice(s, i, j - 1 - i), SecondFrames(s, j))

\* the rest of either pattern from position i, with the hour group's capture
MinuteSecondFrames(s, i, hour) ==
    FirstOf(WithMinute(s, i, hour, MinuteGroup(s, i)),
            Captures(hour, Absent, SecondFrames(s, i)))

\* the hour group present and ending before position j
WithHour(s, j) ==
    IF j = 0 THEN NoMatch ELSE MinuteSecondFrames(s, j, Slice(s, 1, j - 2))

\* TTML_TIMETAG_MS.captures(s); the anchor ^ makes every attempt start at 1
TTML_TIMETAG_MS(s) == MinuteSecondFrames(s, 1, Absent)

\* TTML_TIMETAG_HMS.captures(s)
TTML_TIMETAG_HMS(s) == FirstOf(WithHour(s, HourGroup(s, 1)), MinuteSecondFrames(s, 1, Absent))

\* .map(|x| x.as_str().parse().unwrap()).unwrap_or(0)
ParseOr0(capture) == IF capture = Absent THEN [kind |-> "Ok", val |-> U32(0)]
                     ELSE parse_u32(capture)

\* TimeTag::from_str(ts) of the lrc crate: the time tag written ts
TimeTag_from_str(ts) == [kind |-> "Ok", tag |-> ts]

InvalidPattern == "Invalid pattern"

\* format!("{:02}:{:02}.{}", minutes, sec, ms / 10), handed to the crate
Timestamp(minutes, sec, ms) ==
    IF minutes.kind # "Ok" THEN Panic
    ELSE TimeTag_from_str(Fmt02(minutes.val) \o <<":">> \o Fmt02(sec) \o <<".">>
                              \o Fmt(U32(ms.lo \div 10)))

\* the fields parsed with .parse().unwrap(): a field that does not parse panics
Parsed(hour, min, sec, ms, checks) ==
    IF \E r \in {hour, min, sec, ms} : r.kind # "Ok" THEN Panic
    ELSE Timestamp(HourMinutes(hour.val, min.val, checks), sec.val, ms.val)

\* the body of either branch; the captures of TTML_TIMETAG_MS have no hour,
\* which leaves min alone as the minutes
Assemble(caps, checks) ==
    Parsed(ParseOr0(caps.hour), ParseOr0(caps.minute), parse_u32(caps.second),
           parse_u32(caps.frames), checks)

\* if let Some(ms) = .. { .. } if let Some(hms) = .. { .. } Err(..)
Branch(caps, checks) ==
    IF caps.kind = "Match" THEN Assemble(caps, checks) ELSE Err(InvalidPattern)

ttml_timetag_to_lrc_timetag(s, checks) ==
    Branch(FirstOf(TTML_TIMETAG_MS(s), TTML_TIMETAG_HMS(s)), checks)

(***************************************************************************)
(* The translator's inputs.  A text is put together from leading fields    *)
(* (each followed by ":"), a seconds field, ".", a fraction field, and     *)
(* junk before and after.                                                  *)
(***************************************************************************)
MaxLead == 3

LeadSamples ==
    { <<"0">>, <<"2">>, <<"0", "2">>, <<"1", "2">>, <<"1", "6">>, <<"9", "9">>,
      <<"1", "2", "3">>,
      <<"7", "1", "5", "8", "2", "7", "8", "8">>,
      <<"7", "1", "5", "8", "2", "7", "8", "9">>,
      <<"4", "2", "9", "4", "9", "6", "7", "2", "9", "6">>,
      <<"U+0663">> }

FewLeads == { <<"1">>, <<"0", "2">> }

SecondSamples ==
    { <<"5">>, <<"0", "5">>, <<"5", "9">>, <<"9", "9">>, <<>>, <<"1", "2", "3">> }

FrameSamples ==
    { <<"0", "0", "0">>, <<"0", "0", "5">>, <<"0", "5", "0">>, <<"4", "5", "6">>,
      <<"9", "9", "9">>, <<"4", "5">>, <<"4", "5", "6", "7">> }

Leads == UNION { [1..n -> IF n <= 2 THEN LeadSamples ELSE FewLeads] : n \in 0..MaxLead }

Shapes == [pre : {<<>>, <<"x">>}, lead : Leads, ss : SecondSamples,
           fff : FrameSamples, post : {<<>>, <<"x">>, <<"LF">>}]

RECURSIVE JoinLead(_)
JoinLead(lead) == IF lead = <<>> THEN <<>>
                  ELSE Head(lead) \o <<":">> \o JoinLead(Tail(lead))

Build(sh) == sh.pre \o JoinLead(sh.lead) \o sh.ss \o <<".">> \o sh.fff \o sh.post

NoDocument == [kind |-> "None"]
NoRequest == [kind |-> "None"]

DocIdle == xml = NoDocument /\ lyrics = NotCalled /\ visited = 0

SaveIdle == /\ request = NoRequest
            /\ pc = "idle"
            /\ idx = 0
            /\ files = <<>>
            /\ printed = <<>>
            /\ outcome = NotCalled

InitTimetag == /\ shape \in Shapes
               /\ ttml = Build(shape)
               /\ overflowChecks \in BOOLEAN
               /\ timetag = NotCalled
               /\ DocIdle
               /\ SaveIdle

Translate == /\ timetag = NotCalled
             /\ timetag' = ttml_timetag_to_lrc_timetag(ttml, overflowChecks)
             /\ UNCHANGED <<shape, ttml, overflowChecks>>
             /\ UNCHANGED docVars
             /\ UNCHANGED saveVars

SpecTimetag == InitTimetag /\ [][Translate]_vars

(***************************************************************************)
(* Reading a shape and a target timestamp, for the properties below.  The  *)
(* values the properties expect are computed on decimal digits, apart from *)
(* the translator's own arithmetic.                                        *)
(***************************************************************************)
AllAscii(s) == \A i \in 1..Len(s) : IsAsciiDigit(s[i])

RECURSIVE ValAcc(_, _)
ValAcc(s, acc) == IF s = <<>> THEN acc
                  ELSE ValAcc(Tail(s), acc * 10 + DigitVal(Head(s)))

\* the number a short run of ASCII digits denotes
Val(s) == ValAcc(s, 0)

\* n < 100 written with two digits
TwoDigits(n) == <<AsciiDigits[(n \div 10) + 1], AsciiDigits[(n % 10) + 1]>>

RECURSIVE StripZeros(_)
StripZeros(s) == IF Len(s) > 1 /\ Head(s) = "0" THEN StripZeros(Tail(s)) ELSE s

RECURSIVE MulAddRev(_, _, _)
\* digits (least significant first) times k plus c, least significant first
MulAddRev(d, k, c) ==
    IF d = <<>>
    THEN IF c = 0 THEN <<>> ELSE <<AsciiDigits[(c % 10) + 1]>> \o MulAddRev(d, k, c \div 10)
    ELSE LET t == DigitVal(Head(d)) * k + c
         IN  <<AsciiDigits[(t % 10) + 1]>> \o MulAddRev(Tail(d), k, t \div 10)

\* the decimal digits of hh * 60 + mm, of any width
Times60Plus(hh, mm) ==
    LET r == Reverse(MulAddRev(Reverse(hh), 60, mm))
    IN  IF r = <<>> THEN <<"0">> ELSE StripZeros(r)

RECURSIVE IndexOf(_, _, _)
IndexOf(s, c, i) == IF i > Len(s) THEN 0
                    ELSE IF s[i] = c THEN i ELSE IndexOf(s, c, i + 1)

MinutesText(tag) == Slice(tag, 1, IndexOf(tag, ":", 1) - 1)

SecondsText(tag) ==
    Slice(tag, IndexOf(tag, ":", 1) + 1, IndexOf(tag, ".", 1) - IndexOf(tag, ":", 1) - 1)

CentisText(tag) == Slice(tag, IndexOf(tag, ".", 1) + 1, Len(tag) - IndexOf(tag, ".", 1))

Colons(tag) == Cardinality({i \in 1..Len(tag) : tag[i] = ":"})

\* the characters of an error message
MessageChars(msg) ==
    CASE msg = "Invalid pattern" ->
             <<"I", "n", "v", "a", "l", "i", "d", " ", "p", "a", "t", "t", "e", "r", "n">>
      [] OTHER -> <<>>

Contains(text, part) ==
    \E i \in 1..(Len(text) + 1) :
        i + Len(part) - 1 <= Len(text) /\ Slice(text, i, Len(part)) = part

NoJunk(sh) == sh.pre = <<>> /\ sh.post = <<>>

SecondsAndFraction(sh) == /\ Len(sh.ss) \in {1, 2}
                          /\ AllAscii(sh.ss)
                          /\ Len(sh.fff) = 3
                          /\ AllAscii(sh.fff)

\* SS.fff with SS in 0..59
BareSeconds(sh) == /\ NoJunk(sh)
                   /\ sh.lead = <<>>
                   /\ SecondsAndFraction(sh)
                   /\ Val(sh.ss) <= 59

\* X:SS.fff
TwoField(sh) == /\ NoJunk(sh)
                /\ Len(sh.lead) = 1
                /\ AllAscii(sh.lead[1])
                /\ SecondsAndFraction(sh)

\* HH:MM:SS.fff
ThreeField(sh) == /\ NoJunk(sh)
                  /\ Len(sh.lead) = 2
                  /\ AllAscii(sh.lead[1])
                  /\ AllAscii(sh.lead[2])
                  /\ Len(sh.lead[2]) \in {1, 2}
                  /\ SecondsAndFraction(sh)

\* the texts (MM:)?SS.fff and (HH:)?(MM:)?SS.fff describe, told from the fields
InPatterns(sh) ==
    /\ NoJunk(sh)
    /\ Len(sh.ss) \in {1, 2}
    /\ Len(sh.fff) = 3
    /\ \/ Len(sh.lead) <= 1
       \/ Len(sh.lead) = 2 /\ Len(sh.lead[2]) \in {1, 2}

Translated == timetag.kind # "NotCalled"

C2_HoursFoldIntoMinutes ==
    (Translated /\ ThreeField(shape)) =>
        /\ timetag.kind = "Ok"
        /\ Colons(timetag.tag) = 1
        /\ StripZeros(MinutesText(timetag.tag))
               = Times60Plus(shape.lead[1], Val(shape.lead[2]))
        /\ Val(SecondsText(timetag.tag)) = Val(shape.ss)
        /\ Val(CentisText(timetag.tag)) = Val(shape.fff) \div 10

(***************************************************************************)
(* C3: every text that is not, as a whole, of one of the two patterns is   *)
(* refused with the fixed error "Invalid pattern" and yields no timestamp; *)
(* a match of a part of the text is never accepted.                        *)
(***************************************************************************)
C3_RefusedWithInvalidPattern ==
    (Translated /\ ~InPatterns(shape)) => timetag = Err(InvalidPattern)

\* a well-formed timestamp followed by one more character has been refused
C3_TrailingJunkRefused ==
    /\ Translated
    /\ shape.pre = <<>>
    /\ shape.post # <<>>
    /\ InPatterns([shape EXCEPT !.post = <<>>])
    /\ timetag.kind = "Err"

\* C3 with the error said to carry the refused text
C3_ErrorCarriesText ==
    (Translated /\ ~InPatterns(shape)) =>
        timetag.kind = "Err" /\ Contains(MessageChars(timetag.msg), ttml)

(***************************************************************************)
(* C10: for every X:SS.fff the translator succeeds and the minutes of the  *)
(* result are X (hours = 0), whatever the number of digits of X.           *)
(***************************************************************************)
C10_TwoFieldLeadIsMinutes ==
    (Translated /\ TwoField(shape)) =>
        /\ timetag.kind = "Ok"
        /\ StripZeros(MinutesText(timetag.tag)) = StripZeros(shape.lead[1])

(***************************************************************************)
(* The parsed Document.  nodes lists the div and p elements below body in  *)
(* document order; parent is the index of the enclosing div, 0 for body.   *)
(* begin holds the value of the attribute begin, if the element has one;   *)
(* kids are the child nodes of a p: text nodes, span and br elements.      *)
(***************************************************************************)
Body == 0

RECURSIVE Ancestors(_, _)
\* the elements a node lies in: its parent, the parent's parent, ..., body
Ancestors(nodes, i) ==
    IF i = Body THEN {}
    ELSE {nodes[i].parent} \cup Ancestors(nodes, nodes[i].parent)

RECURSIVE Matches(_, _, _, _)
\* the descendants of element with that tag among nodes i, i + 1, ...
Matches(nodes, element, tag, i) ==
    IF i > Len(nodes) THEN <<>>
    ELSE IF nodes[i].tag = tag /\ element \in Ancestors(nodes, i)
    THEN <<i>> \o Matches(nodes, element, tag, i + 1)
    ELSE Matches(nodes, element, tag, i + 1)

\* element.query_selector_all(&xml, &Selector::new(tag)): the descendants of
\* the element with that tag, in document order
query_selector_all(nodes, element, tag) == Matches(nodes, element, tag, 1)

\* p_element.query_selector(&xml, &Selector::new("span")).is_some()
HasSpan(p) == \E k \in 1..Len(p.kids) : p.kids[k].node = "span"

\* lyrics.add_timed_line(timetag, text) of the lrc crate
add_timed_line(lines, tag, text) ==
    [kind |-> "Ok", lines |-> Append(lines, [time |-> tag, text |-> text])]

\* let timetag = ttml_timetag_to_lrc_timetag(begin)?; then the line is added
AddLine(lines, tt, text) ==
    IF tt.kind # "Ok" THEN tt ELSE add_timed_line(lines, tt.tag, text)

\* one turn of the inner loop with the attribute read before the span test
VisitParagraph_beginFirst(p, lines, checks) ==
    IF p.begin = <<>> THEN Err("No begin attribute")
    ELSE IF HasSpan(p) THEN Err("Syllable lyrics is not supported")
    ELSE IF p.kids = <<>> THEN Panic
    ELSE IF p.kids[1].node # "text" THEN Panic
    ELSE AddLine(lines, ttml_timetag_to_lrc_timetag(p.begin[1], checks), p.kids[1].text)

\* one turn of the inner loop, the checks in the order the code makes them
VisitParagraph(p, lines, checks) ==
    IF HasSpan(p) THEN Err("Syllable lyrics is not supported")
    ELSE IF p.begin = <<>> THEN Err("No begin attribute")
    ELSE IF p.kids = <<>> THEN Panic                     \* .first().unwrap()
    ELSE IF p.kids[1].node # "text" THEN Panic           \* .as_text().unwrap()
    ELSE AddLine(lines, ttml_timetag_to_lrc_timetag(p.begin[1], checks), p.kids[1].text)

RECURSIVE Concat(_)
Concat(ss) == IF ss = <<>> THEN <<>> ELSE Head(ss) \o Concat(Tail(ss))

\* the inner loop's paragraphs, div after div
ParagraphsOf(nodes, divs) ==
    Concat([k \in 1..Len(divs) |-> query_selector_all(nodes, divs[k], "p")])

\* the paragraphs in the order the two nested loops reach them
VisitOrder(nodes) == ParagraphsOf(nodes, query_selector_all(nodes, Body, "div"))

RECURSIVE Loop(_, _, _, _, _)
RECURSIVE Continue(_, _, _, _, _)
\* the loops over ps, the paragraphs still to visit, n of them visited so far
Loop(nodes, ps, lines, n, checks) ==
    IF ps = <<>> THEN [result |-> [kind |-> "Ok", lines |-> lines], visited |-> n]
    ELSE Continue(nodes, ps, VisitParagraph(nodes[Head(ps)], lines, checks), n + 1, checks)

\* bail!, ? and unwrap leave the loops; otherwise they go on
Continue(nodes, ps, r, n, checks) ==
    IF r.kind # "Ok" THEN [result |-> r, visited |-> n]
    ELSE Loop(nodes, Tail(ps), r.lines, n, checks)

\* Ok(lyrics): the metadata and the lines
Finish(run, author, name) ==
    IF run.result.kind # "Ok" THEN run
    ELSE [result |-> [kind |-> "Ok",
                      metadata |-> {<<"ar", author>>, <<"ti", name>>},
                      lines |-> run.result.lines],
          visited |-> run.visited]

\* ttml_to_lrc with the number of paragraphs its loop entered
Synthesize(doc, author, name, checks) ==
    IF ~doc.hasBody THEN [result |-> Panic, visited |-> 0]   \* .unwrap() of None
    ELSE Finish(Loop(doc.nodes, VisitOrder(doc.nodes), <<>>, 0, checks), author, name)

ttml_to_lrc(doc, author, name, checks) == Synthesize(doc, author, name, checks).result

(***************************************************************************)
(* The documents the synthesizer is run on.                                *)
(***************************************************************************)
MaxNodes == 4

Text(t) == [node |-> "text", text |-> t]
Span == [node |-> "span", text |-> ""]
Br == [node |-> "br", text |-> ""]

Later == <<"1", ".", "2", "0", "0">>
Earlier == <<"0", ".", "5", "0", "0">>

\* the paragraphs: begin and child nodes
ParagraphSamples ==
    { [begin |-> <<Later>>, kids |-> <<Text("la")>>],
      [begin |-> <<Earlier>>, kids |-> <<Text("na")>>],
      [begin |-> <<Later>>, kids |-> <<Text("la"), Span>>],
      [begin |-> <<>>, kids |-> <<Span, Text("la")>>],
      [begin |-> <<>>, kids |-> <<Text("la")>>],
      [begin |-> <<Later>>, kids |-> <<>>],
      [begin |-> <<Later>>, kids |-> <<Br, Text("la")>>],
      [begin |-> <<<<"a", "b", "c">>>>, kids |-> <<Text("la")>>] }

\* the elements that can follow nodes in document order
NextNodes(nodes) ==
    LET last == Len(nodes)
        open == IF last = 0 THEN {Body}
                ELSE {Body} \cup {j \in {last} \cup Ancestors(nodes, last) :
                                      j # Body /\ nodes[j].tag = "div"}
    IN  {[tag |-> "div", parent |-> j, begin |-> <<>>, kids |-> <<>>] : j \in open}
        \cup {[tag |-> "p", parent |-> j, begin |-> p.begin, kids |-> p.kids] :
                  j \in open, p \in ParagraphSamples}

\* the elements a document may hold, whatever their place
Elements ==
    {[tag |-> "div", parent |-> j, begin |-> <<>>, kids |-> <<>>] : j \in 0..MaxNodes}
        \cup {[tag |-> "p", parent |-> j, begin |-> p.begin, kids |-> p.kids] :
                  j \in 0..MaxNodes, p \in ParagraphSamples}

RECURSIVE NodeLists(_)
\* the lists of exactly n nodes in document order
NodeLists(n) ==
    IF n = 0 THEN {<<>>}
    ELSE {Append(ext[1], ext[2]) :
              ext \in {e \in NodeLists(n - 1) \X Elements : e[2] \in NextNodes(e[1])}}

\* a document of n nodes; one without a body element has no nodes
Documents(n) ==
    {doc \in [hasBody : BOOLEAN, nodes : NodeLists(n)] : doc.hasBody \/ doc.nodes = <<>>}

TagIdle == shape = NoRequest /\ ttml = <<>> /\ timetag = NotCalled

InitDocument == /\ \E n \in 0..MaxNodes : xml \in Documents(n)
                /\ lyrics = NotCalled
                /\ visited = 0
                /\ overflowChecks \in BOOLEAN
                /\ TagIdle
                /\ SaveIdle

Convert == /\ lyrics = NotCalled
           /\ \E run \in {Synthesize(xml, "A", "T", overflowChecks)} :
                  lyrics' = run.result /\ visited' = run.visited
           /\ UNCHANGED <<xml, overflowChecks, shape, ttml, timetag>>
           /\ UNCHANGED saveVars

SpecDocument == InitDocument /\ [][Convert]_vars

Converted == lyrics.kind # "NotCalled"

\* the paragraph the loop was at when it entered its k-th turn
VisitedParagraph(k) == xml.nodes[VisitOrder(xml.nodes)[k]]

\* the paragraphs that lie under a div of body
ParagraphsUnderDiv ==
    {i \in 1..Len(xml.nodes) :
        /\ xml.nodes[i].tag = "p"
        /\ \E j \in Ancestors(xml.nodes, i) : j # Body /\ xml.nodes[j].tag = "div"}

(***************************************************************************)
(* C4: when a paragraph the synthesizer visits has a span below it, the    *)
(* synthesizer fails with "Syllable lyrics is not supported" and returns   *)
(* no lyrics, whatever the paragraphs visited before it produced.          *)
(***************************************************************************)
C4_SpanParagraphFails ==
    (Converted /\ \E k \in 1..visited : HasSpan(VisitedParagraph(k))) =>
        lyrics = Err("Syllable lyrics is not supported")

\* the loop has reached a paragraph with a span after a paragraph that
\* produced a line
C4_SpanAfterValidParagraph ==
    /\ Converted
    /\ visited >= 2
    /\ HasSpan(VisitedParagraph(visited))
    /\ ~HasSpan(VisitedParagraph(1))
    /\ lyrics.kind = "Err"

(***************************************************************************)
(* C6: a document without body, a paragraph without the attribute begin    *)
(* and a paragraph whose first child is missing or is no text node each    *)
(* make the synthesizer return an error value to its caller.               *)
(***************************************************************************)
C6_StructureErrorsAreReturned ==
    LET defect(p) == /\ ~HasSpan(p)
                     /\ \/ p.begin = <<>>
                        \/ p.kids = <<>>
                        \/ p.kids[1].node # "text"
    IN  (/\ Converted
         /\ \/ ~xml.hasBody
            \/ visited >= 1 /\ defect(VisitedParagraph(visited)))
            => lyrics.kind = "Err"

(***************************************************************************)
(* C7: after a successful synthesis the number of timed lines is the       *)
(* number of paragraphs that lie under a div of body: each contributes     *)
(* exactly one line, also when divs are nested.                            *)
(***************************************************************************)
C7_OneLinePerParagraph ==
    (Converted /\ lyrics.kind = "Ok") =>
        Len(lyrics.lines) = Cardinality(ParagraphsUnderDiv)

(***************************************************************************)
(* C5: after a successful synthesis the timed lines stand in the order of  *)
(* their paragraphs in the source document, across all divs: no line of an *)
(* earlier paragraph follows a line of a later one.                        *)
(***************************************************************************)
C5_LinesInDocumentOrder ==
    (Converted /\ lyrics.kind = "Ok") =>
        LET order == VisitOrder(xml.nodes)
        IN  /\ Len(lyrics.lines) = Len(order)
            /\ \A i, j \in 1..Len(lyrics.lines) :
                   /\ lyrics.lines[i].text = xml.nodes[order[i]].kids[1].text
                   /\ i < j => order[i] <= order[j]

(***************************************************************************)
(* The writers.  A ttml string of the catalog is kept as what parsing it   *)
(* gives: wellFormed tells whether Document::from_str succeeds, doc is the *)
(* Document.  A file's content is the text written to it.                  *)
(***************************************************************************)
MaxTracks == 3

Div == [tag |-> "div", parent |-> Body, begin |-> <<>>, kids |-> <<>>]

Paragraph(parent, begin, kids) ==
    [tag |-> "p", parent |-> parent, begin |-> begin, kids |-> kids]

LineLevel ==
    [wellFormed |-> TRUE,
     doc |-> [hasBody |-> TRUE,
              nodes |-> <<Div, Paragraph(1, <<Later>>, <<Text("la")>>)>>]]

SyllableLevel ==
    [wellFormed |-> TRUE,
     doc |-> [hasBody |-> TRUE,
              nodes |-> <<Div, Paragraph(1, <<Later>>, <<Span>>)>>]]

NotXml == [wellFormed |-> FALSE, doc |-> [hasBody |-> FALSE, nodes |-> <<>>]]

Track(name, lines, syllables) ==
    [name |-> name, artist |-> "A", lyrics |-> lines, syllable_lyrics |-> syllables]

TrackSamples ==
    { Track("one", <<LineLevel>>, <<SyllableLevel>>),
      Track("two", <<>>, <<>>),
      Track("three", <<SyllableLevel>>, <<SyllableLevel>>),
      Track("four", <<NotXml>>, <<>>) }

Requests ==
    [cmd : {"album", "song"}, lrc : BOOLEAN, syllable : BOOLEAN,
     tracks : UNION {[1..n -> TrackSamples] : n \in 0..MaxTracks}]

\* SimpleRelationships::get_lyrics
get_lyrics(track, syllable) ==
    IF syllable THEN track.syllable_lyrics ELSE track.lyrics

\* nice_xml: Document::from_str(&xml).expect(..) and the pretty printing
nice_xml(lyric) == IF ~lyric.wellFormed THEN Panic
                   ELSE [kind |-> "Ok", text |-> [format |-> "ttml", of |-> lyric.doc]]

\* ttml_to_lrc(..).context("Failed to convert")?.to_string()
Rendered(r) == IF r.kind = "Err" THEN Err("Failed to convert")
               ELSE IF r.kind = "Panic" THEN Panic
               ELSE [kind |-> "Ok", text |-> [format |-> "lrc", of |-> r]]

\* let buf = if lrc { .. ttml_to_lrc(..) .. } else { nice_xml(..) }
Buffer(lyric, artist, name, lrc, checks) ==
    IF lrc
    THEN IF ~lyric.wellFormed THEN Panic                \* .expect("Failed to parse xml")
         ELSE Rendered(ttml_to_lrc(lyric.doc, artist, name, checks))
    ELSE nice_xml(lyric)

Truncated == [format |-> "truncated", of |-> <<>>]

Put(fs, file, content) ==
    [f \in DOMAIN fs \cup {file} |-> IF f = file THEN content ELSE fs[f]]

\* the file created before the text to write is looked at
Store_createFirst(fs, file, buf, io) ==
    IF io = "no create" THEN [files |-> fs, result |-> Err("Failed to create file")]
    ELSE IF buf.kind # "Ok" THEN [files |-> Put(fs, file, Truncated), result |-> buf]
    ELSE IF io = "no write"
    THEN [files |-> Put(fs, file, Truncated), result |-> Err("Failed to write file")]
    ELSE [files |-> Put(fs, file, buf.text), result |-> [kind |-> "Ok"]]

\* with buf computed: File::create(file_name)?, then file.write_all(..)?
Store(fs, file, buf, io) ==
    IF buf.kind # "Ok" THEN [files |-> fs, result |-> buf]
    ELSE IF io = "no create"
    THEN [files |-> fs, result |-> Err("Failed to create file")]
    ELSE IF io = "no write"
    THEN [files |-> Put(fs, file, Truncated), result |-> Err("Failed to write file")]
    ELSE [files |-> Put(fs, file, buf.text), result |-> [kind |-> "Ok"]]

WriteLyric(fs, file, lyric, artist, name, lrc, checks, io) ==
    Store(fs, file, Buffer(lyric, artist, name, lrc, checks), io)

Extension(lrc) == IF lrc THEN "lrc" ELSE "ttml"

\* format!("{}/{} - {}.{}", folder_name, name, artist_name, ..)
AlbumFile(track, lrc) ==
    [folder |-> "album", name |-> track.name, artist |-> track.artist,
     ext |-> Extension(lrc)]

\* format!("{} - {}.{}", name, artist_name, ..)
SongFile(track, lrc) ==
    [folder |-> "", name |-> track.name, artist |-> track.artist, ext |-> Extension(lrc)]

IoOutcomes == {"ok", "no create", "no write"}

InitSave == /\ request \in Requests
            /\ request.cmd = "song" => Len(request.tracks) <= 1
            /\ pc = "start"
            /\ idx = 0
            /\ files = <<>>
            /\ printed = <<>>
            /\ outcome = NotCalled
            /\ overflowChecks \in BOOLEAN
            /\ TagIdle
            /\ DocIdle

Return(result) == pc' = "done" /\ outcome' = result

\* save_album_lyrics up to its loop: the request to the catalog, the album
\* looked up in the answer, the folder created
FetchAlbum ==
    /\ pc = "start"
    /\ request.cmd = "album"
    /\ \E got \in {"ok", "no answer", "no json", "no album", "no folder"} :
          /\ printed' = IF got \in {"ok", "no folder"}
                        THEN <<"Getting album info...", "Saving lyrics...">>
                        ELSE <<"Getting album info...">>
          /\ CASE got = "ok" -> pc' = "loop" /\ outcome' = outcome
               [] got = "no answer" -> Return(Err("Failed to send request to Apple Music"))
               [] got = "no json" -> Return(Panic)
               [] got = "no album" -> Return(Err("No album found"))
               [] got = "no folder" -> Return(Err("Failed to create folder"))
    /\ idx' = 1
    /\ UNCHANGED <<request, files, overflowChecks>>
    /\ UNCHANGED <<shape, ttml, timetag>>
    /\ UNCHANGED docVars

\* one turn of the loop over the tracks
SaveTrack ==
    /\ pc = "loop"
    /\ idx <= Len(request.tracks)
    /\ \E track \in {request.tracks[idx]} :
         \E found \in {get_lyrics(track, request.syllable)} :
           IF found = <<>>
           THEN /\ printed' = Append(printed, <<track.name, track.artist, "has no lyrics">>)
                /\ idx' = idx + 1
                /\ UNCHANGED <<files, pc, outcome>>
           ELSE \E io \in IoOutcomes :
                  \E w \in {WriteLyric(files, AlbumFile(track, request.lrc), found[1],
                                       track.artist, track.name, request.lrc,
                                       overflowChecks, io)} :
                      /\ files' = w.files
                      /\ printed' = printed
                      /\ IF w.result.kind = "Ok"
                         THEN idx' = idx + 1 /\ UNCHANGED <<pc, outcome>>
                         ELSE idx' = idx /\ Return(w.result)
    /\ UNCHANGED <<request, overflowChecks>>
    /\ UNCHANGED <<shape, ttml, timetag>>
    /\ UNCHANGED docVars

\* the loop is over: Ok(())
AlbumSaved ==
    /\ pc = "loop"
    /\ idx > Len(request.tracks)
    /\ Return([kind |-> "Ok"])
    /\ UNCHANGED <<request, idx, files, printed, overflowChecks>>
    /\ UNCHANGED <<shape, ttml, timetag>>
    /\ UNCHANGED docVars

\* save_song_lyrics
SaveSong ==
    /\ pc = "start"
    /\ request.cmd = "song"
    /\ idx' = 1
    /\ \E got \in {"ok", "no answer", "no json"}, io \in IoOutcomes :
          IF got = "no answer"
          THEN /\ Return(Err("Failed to send request to Apple Music"))
               /\ printed' = <<"Getting song info...">>
               /\ files' = files
          ELSE IF got = "no json"
          THEN /\ Return(Err("Failed to parse json"))
               /\ printed' = <<"Getting song info...">>
               /\ files' = files
          ELSE IF request.tracks = <<>>
          THEN /\ Return(Err("No song found"))
               /\ printed' = <<"Getting song info...">>
               /\ files' = files
          ELSE \E song \in {request.tracks[1]} :
                 \E found \in {get_lyrics(song, request.syllable)} :
                   IF found = <<>>
                   THEN /\ Return([kind |-> "Ok"])
                        /\ printed' = <<"Getting song info...", "Saving lyrics...",
                                        "This song has no lyrics">>
                        /\ files' = files
                   ELSE \E w \in {WriteLyric(files, SongFile(song, request.lrc), found[1],
                                             song.artist, song.name, request.lrc,
                                             overflowChecks, io)} :
                            /\ Return(w.result)
                            /\ printed' = <<"Getting song info...", "Saving lyrics...">>
                            /\ files' = w.files
    /\ UNCHANGED <<request, overflowChecks>>
    /\ UNCHANGED <<shape, ttml, timetag>>
    /\ UNCHANGED docVars

NextSave == FetchAlbum \/ SaveTrack \/ AlbumSaved \/ SaveSong

SpecSave == InitSave /\ [][NextSave]_vars

(***************************************************************************)
(* What the writers leave behind.                                          *)
(***************************************************************************)
Lyric(track) == get_lyrics(track, request.syllable)

\* the text the writer computes for a track that has lyrics
BufferOf(track) ==
    Buffer(Lyric(track)[1], track.artist, track.name, request.lrc, overflowChecks)

\* the track's lyrics convert
Convertible(track) == Lyric(track) # <<>> /\ BufferOf(track).kind = "Ok"

\* the track has no lyrics, or lyrics the synthesizer refuses
WithoutUsableLyrics(track) ==
    Lyric(track) = <<>> \/ BufferOf(track) = Err("Failed to convert")

\* the album's tracks all either convert or have no usable lyrics, and
\* neither the catalog nor the file system failed
BatchOfOrdinaryTracks ==
    /\ request.cmd = "album"
    /\ pc = "done"
    /\ outcome \in {[kind |-> "Ok"], Err("Failed to convert")}
    /\ \A k \in 1..Len(request.tracks) :
           Convertible(request.tracks[k]) \/ WithoutUsableLyrics(request.tracks[k])

\* C8: when save_album_lyrics is over, every track with convertible lyrics
\* has its file, whatever tracks without lyrics or with unsupported
\* (syllable-level) lyrics come before it in the album: such a track does
\* not stop the batch.
C8_BatchSurvivesUnusableTrack ==
    BatchOfOrdinaryTracks =>
        \A k \in 1..Len(request.tracks) :
            Convertible(request.tracks[k]) =>
                AlbumFile(request.tracks[k], request.lrc) \in DOMAIN files

\* the track a step of either writer is about, and its file
CurrentTrack == request.tracks[IF request.cmd = "album" THEN idx ELSE 1]

CurrentFile == IF request.cmd = "album" THEN AlbumFile(CurrentTrack, request.lrc)
               ELSE SongFile(CurrentTrack, request.lrc)

\* the step creates file f or changes its content
Touched(f) == f \notin DOMAIN files \/ files'[f] # files[f]

\* C9: a step of save_album_lyrics or save_song_lyrics creates or writes a
\* file only if it is the current track's file and the whole text for that
\* track was computed successfully, and what the file then holds is that
\* whole text or nothing of it; a failed conversion touches no file.
C9_FileOnlyAfterConversion ==
    [][ \A f \in DOMAIN files' :
            Touched(f) =>
                /\ f = CurrentFile
                /\ Lyric(CurrentTrack) # <<>>
                /\ BufferOf(CurrentTrack).kind = "Ok"
                /\ files'[f] \in {BufferOf(CurrentTrack).text, Truncated} ]_vars

\* the second track of an album failed to convert after the first was
\* saved: the first track's file is the only one
C9_FailedTrackLeavesNoFile ==
    /\ request.cmd = "album"
    /\ pc = "done"
    /\ outcome = Err("Failed to convert")
    /\ idx = 2
    /\ DOMAIN files = {AlbumFile(request.tracks[1], request.lrc)}
    /\ AlbumFile(request.tracks[2], request.lrc) \notin DOMAIN files

====
